---- MODULE Spec2Model ----
(***************************************************************************)
(* Model of stonefish: the BaseModel forward pass and autoregressive       *)
(* decoder (stonefish/model.py), the command line and training loop of     *)
(* stonefish/train.py, and the GPTTrainingContext loop of                  *)
(* stonefish/train/gpt.py.                                                 *)
(***************************************************************************)
EXTENDS Integers, Sequences, FiniteSets, TLC

(* ---------------- bounds of the decoder model ---------------- *)
MaxBatch == 1      \* largest batch size explored
StateLen == 1      \* length of every state row explored
MaxActLen == 2     \* longest action sequence given to forward
MaxMaxLen == 2     \* largest max_len given to inference / sample
BoardWidth == 1    \* input_rep.width() explored
MoveWidth == 2     \* output_rep.width() explored

(* ---------------- bounds of the training model ---------------- *)
MainEpochs == 3    \* epochs of main explored (range(1000) in the source)
MaxEpochs == 2     \* largest GPTTrainingContext.epochs explored
MaxEvalFreq == 2   \* largest GPTTrainingContext.eval_freq explored
MaxBatches == 3    \* largest number of batches per epoch explored

(* the padding sentinel: default padding_value of get_mask *)
PaddingValue == -1

(* the default start_id of BaseModel.__init__ *)
StartId == 0

VARIABLES
    \* ---- model.py: one call of forward / inference / sample ----
    op,          \* which method is called: "forward", "inference", "sample"
    state,       \* the state batch: sequence of rows of token ids
    action,      \* the action batch given to forward
    max_len,     \* the max_len given to inference / sample
    dpc,         \* position in the call: "start", "loop", "done"
    tokens,      \* the local `tokens` of _inference
    i,           \* the loop variable of _inference (number of finished steps)
    srcIn,       \* last batch handed to board_embed (via _state_embed)
    tgtIn,       \* last batch handed to move_embed (via _action_embed)
    nextIn,      \* last next_value handed to move_embed (line 196)
    mask,        \* the local `mask` (source key padding mask)
    tgt_mask,    \* the local `tgt_mask` (target key padding mask)
    result,      \* the value returned by the call
    \* ---- train.py (__main__ and main) and train/gpt.py (__call__) ----
    prog,        \* which program runs: "main" (train.py) or "gpt" (gpt.py)
    pc,          \* the statement the program is at
    arg_o,       \* args.o, the overwrite flag
    log_exists,  \* os.path.exists(args.log_file) when the program starts
    load_model,  \* --load_model: "none", "ok" (loadable) or "bad"
    load_opt,    \* --load_opt: "none", "ok" (loadable) or "bad"
    go_ahead,    \* the local go_ahead of __main__
    res,         \* the local res of __main__: the line typed at the prompt
    prompted,    \* input(...) has been called
    log,         \* content of the log file
    num_batches, \* len(dataloader) / len(self.train_dl)
    epochs,      \* number of epochs of the loop
    eval_freq,   \* GPTTrainingContext.eval_freq
    epoch,       \* loop variable epoch
    batch_idx,   \* loop variable batch_idx
    params,      \* the model parameters
    opt_state,   \* the optimizer state
    grads,       \* the accumulated gradients
    loss,        \* the local loss
    model_file,  \* content of model_<epoch>.pth, by epoch
    opt_file,    \* content of opt.pth
    ckpt,        \* what Logger.save_checkpoint saved last
    evals        \* evaluations run so far in the current epoch

tvars == <<prog, pc, arg_o, log_exists, load_model, load_opt, go_ahead,
           res, prompted, log, num_batches, epochs, eval_freq, epoch, batch_idx,
           params, opt_state, grads, loss, model_file, opt_file, ckpt, evals>>

dvars == <<op, state, action, max_len, dpc, tokens, i,
           srcIn, tgtIn, nextIn, mask, tgt_mask, result>>

vars == <<dvars, tvars>>

BoardTok == PaddingValue .. (BoardWidth - 1)
MoveTok == PaddingValue .. (MoveWidth - 1)
MoveVocab == 0 .. (MoveWidth - 1)

Batches(B, L, T) == [1..B -> [1..L -> T]]

(* ---------------- pure helpers of model.py ---------------- *)

\* get_mask on one row: mask = data == padding_value
get_mask_row(row, padding_value) == [j \in DOMAIN row |-> row[j] = padding_value]

\* get_mask(data, padding_value=-1) on a batch
get_mask(data) == [b \in DOMAIN data |-> get_mask_row(data[b], PaddingValue)]

\* torch: bool tensor times long tensor; True * x = x, False * x = 0
BoolTimes(flag, x) == IF flag THEN x ELSE 0

\* a forgotten mask: the raw batch goes to the embedding
MaskedInputRaw(m, data) == data

\* `~mask * data` of forward and _inference
MaskedInput(m, data) ==
    [b \in DOMAIN data |-> [j \in DOMAIN data[b] |-> BoolTimes(~m[b][j], data[b][j])]]

\* _transformer_pass: one hidden vector per target position.  The causal
\* tgt_mask lets position j attend to target positions <= j only, and the
\* key padding mask removes the padded ones.  The weights are abstracted:
\* a hidden vector is represented by the position it sits at and the target
\* tokens it is computed from.
TransformerPass(tgt, pad) ==
    [b \in DOMAIN tgt |->
        [j \in DOMAIN tgt[b] |->
            [pos |-> j,
             ctx |-> SubSeq(tgt[b], 1, j),
             keys |-> {k \in 1..j : ~pad[b][k]}]]]

\* the slice logits[:, 1:, :], dropping the first position instead
DropFirst(logits) ==
    [b \in DOMAIN logits |-> SubSeq(logits[b], 2, Len(logits[b]))]

\* the slice logits[:, :-1, :]
DropLast(logits) ==
    [b \in DOMAIN logits |-> SubSeq(logits[b], 1, Len(logits[b]) - 1)]

\* self.start_token.repeat(state.shape[0], 1)
StartTokens(sid, B) == [b \in 1..B |-> <<sid>>]

\* torch.zeros(decode.shape[0], decode.shape[1]).bool()
ZerosMask(toks) == [b \in DOMAIN toks |-> [j \in DOMAIN toks[b] |-> FALSE]]

\* a cat that keeps a window of fixed length, losing the oldest token
CatWindow(toks, next_value) ==
    [b \in DOMAIN toks |-> Append(Tail(toks[b]), next_value[b])]

\* torch.cat((tokens, next_value), dim=1)
Cat(toks, next_value) == [b \in DOMAIN toks |-> Append(toks[b], next_value[b])]

\* max_action_sel: torch.argmax(logits, dim=1); ties give the lowest index
max_action_sel(lg) ==
    CHOOSE t \in DOMAIN lg :
        /\ \A u \in DOMAIN lg : lg[u] <= lg[t]
        /\ \A u \in DOMAIN lg : lg[u] = lg[t] => t <= u

\* range(max_len) is exhausted after k iterations
RangeDone(k, n) == k >= n

(* ---------------- one call of BaseModel ---------------- *)

DecodeCall ==
    /\ op \in {"forward", "inference", "sample"}
    /\ \E B \in 1..MaxBatch :
          /\ state \in Batches(B, StateLen, BoardTok)
          /\ IF op = "forward"
                THEN \E M \in 1..MaxActLen : action \in Batches(B, M, MoveTok)
                ELSE action = <<>>
    /\ IF op = "forward" THEN max_len = 0 ELSE max_len \in 0..MaxMaxLen
    /\ dpc = "start"
    /\ tokens = <<>>
    /\ i = 0
    /\ srcIn = <<>>
    /\ tgtIn = <<>>
    /\ nextIn = <<>>
    /\ mask = <<>>
    /\ tgt_mask = <<>>
    /\ result = <<>>

\* BaseModel.forward
Forward ==
    /\ dpc = "start"
    /\ op = "forward"
    /\ mask' = get_mask(state)
    /\ tgt_mask' = get_mask(action)
    /\ srcIn' = MaskedInput(mask', state)
    /\ tgtIn' = MaskedInput(tgt_mask', action)
    /\ result' = DropLast(TransformerPass(tgtIn', tgt_mask'))
    /\ dpc' = "done"
    /\ UNCHANGED <<op, state, action, max_len, tokens, i, nextIn>>

\* BaseModel._inference up to the loop
InferenceStart ==
    /\ dpc = "start"
    /\ op \in {"inference", "sample"}
    /\ mask' = get_mask(state)
    /\ srcIn' = MaskedInput(mask', state)
    /\ tokens' = StartTokens(StartId, Len(state))
    /\ i' = 0
    /\ dpc' = "loop"
    /\ UNCHANGED <<op, state, action, max_len, tgtIn, nextIn,
                   tgt_mask, result>>

\* one iteration of `for i in range(max_len)` with action_sel = max_action_sel
InferenceStep ==
    /\ dpc = "loop"
    /\ op = "inference"
    /\ ~RangeDone(i, max_len)
    /\ \E logits \in [DOMAIN tokens -> [MoveVocab -> 0..1]] :
          LET next_value == [b \in DOMAIN tokens |-> max_action_sel(logits[b])]
          IN /\ tgtIn' = tokens
             /\ tgt_mask' = ZerosMask(tokens)
             /\ tokens' = Cat(tokens, next_value)
             /\ nextIn' = next_value
    /\ i' = i + 1
    /\ UNCHANGED <<op, state, action, max_len, dpc, srcIn, mask,
                   result>>

\* one iteration of the loop with action_sel = sample_action_sel
SampleStep ==
    /\ dpc = "loop"
    /\ op = "sample"
    /\ ~RangeDone(i, max_len)
    /\ \E next_value \in [DOMAIN tokens -> MoveVocab] :
          /\ tgtIn' = tokens
          /\ tgt_mask' = ZerosMask(tokens)
          /\ tokens' = Cat(tokens, next_value)
          /\ nextIn' = next_value
    /\ i' = i + 1
    /\ UNCHANGED <<op, state, action, max_len, dpc, srcIn, mask,
                   result>>

\* `return tokens`
InferenceReturn ==
    /\ dpc = "loop"
    /\ RangeDone(i, max_len)
    /\ result' = tokens
    /\ dpc' = "done"
    /\ UNCHANGED <<op, state, action, max_len, tokens, i,
                   srcIn, tgtIn, nextIn, mask, tgt_mask>>

(* ---------------- helpers of the training programs ---------------- *)

\* the lines the user may type at the overwrite prompt
Answers == {"", "y", "Y", "n", "N", "yes"}

\* str.lower() on the answers
Lower(s) == CASE s = "Y" -> "y" [] s = "N" -> "n" [] OTHER -> s

\* an answer where the empty line is not taken as consent
OverwriteAnswerNoDefault(r) == Lower(r) = "y"

\* go_ahead = res == "" or res.lower() == "y"
OverwriteAnswer(r) == r = "" \/ Lower(r) = "y"

\* if not os.path.exists(args.log_file) or go_ahead
MayRun(exists, go) == ~exists \/ go

\* freshly constructed parameters / optimizer state
Fresh == [origin |-> "fresh", steps |-> 0]

\* a load that keeps the freshly constructed values
LoadStateDictKeep(cur) == cur

\* load_state_dict(torch.load(path)): the loaded state replaces everything
LoadStateDict(cur) == [origin |-> "loaded", steps |-> 0]

\* a step applied twice
OptStepTwice(cur) == [cur EXCEPT !.steps = @ + 2]

\* opt.step() applied to the parameters / the optimizer state
OptStep(cur) == [cur EXCEPT !.steps = @ + 1]

\* eval_model of stonefish.eval: evaluation leaves the parameters alone
EvalModel(p) == p

\* fake_eval of gpt.py: only model.inference under no_grad
FakeEval(p) == p

\* file contents
Absent == [kind |-> "absent", origin |-> "none", steps |-> 0]
Partial == [kind |-> "partial", origin |-> "none", steps |-> 0]
Snap(p) == [kind |-> "snap", origin |-> p.origin, steps |-> p.steps]

\* the log lines of main
TestLine(e) == [kind |-> "TEST", epoch |-> e, batch |-> -1]
TrainLine(e, b) == [kind |-> "TRAIN", epoch |-> e, batch |-> b]
OldLine == [kind |-> "OLD", epoch |-> -1, batch |-> -1]

\* Logger.test_output / Logger.loss / Logger.save_checkpoint of
\* stonefish.slogging
LoggerTestOutput(lg, e) == Append(lg, TestLine(e))
LoggerLoss(lg, e, b) == Append(lg, TrainLine(e, b))
LoggerSaveCheckpoint(c, p, o) ==
    [model |-> Snap(p), opt |-> Snap(o), calls |-> c.calls + 1]

\* a periodic test without the batch_idx > 0 part
PeriodicEvalAtZero(b, freq) == b % freq = 0

\* if batch_idx % self.eval_freq == 0 and batch_idx > 0
PeriodicEval(b, freq) == b % freq = 0 /\ b > 0

\* the statement after a finished batch of main
AfterBatch(b, n) == IF b + 1 < n THEN "zero_grad" ELSE "save_model"

\* an epoch loop that is left after its first epoch
AfterEpochOnce(e, n) == "final_eval"

\* the statement after a finished epoch of main
AfterEpoch(e, n) == IF e + 1 < n THEN "eval" ELSE "final_eval"

(* ---------------- train.py: __main__ ---------------- *)

TrainStart ==
    /\ prog \in {"main", "gpt"}
    /\ pc = IF prog = "main" THEN "cli" ELSE "g_start"
    /\ arg_o \in BOOLEAN
    /\ log_exists \in BOOLEAN
    /\ load_model \in {"none", "ok", "bad"}
    /\ load_opt \in {"none", "ok", "bad"}
    /\ go_ahead = FALSE
    /\ res = ""
    /\ prompted = FALSE
    /\ log = IF log_exists THEN <<OldLine>> ELSE <<>>
    /\ num_batches \in 0..MaxBatches
    /\ \/ prog = "main" /\ epochs = MainEpochs /\ eval_freq = 1
       \/ /\ prog = "gpt"
          /\ epochs \in 0..MaxEpochs
          /\ eval_freq \in 1..MaxEvalFreq
          /\ arg_o = TRUE /\ log_exists = FALSE
          /\ load_model = "none" /\ load_opt = "none"
    /\ epoch = 0
    /\ batch_idx = 0
    /\ params = Fresh
    /\ opt_state = Fresh
    /\ grads = "none"
    /\ loss = "none"
    /\ model_file = [e \in 0..(MainEpochs - 1) |-> Absent]
    /\ opt_file = Absent
    /\ ckpt = [model |-> Absent, opt |-> Absent, calls |-> 0]
    /\ evals = 0

\* go_ahead = args.o; if not go_ahead and os.path.exists(...)
CliFlag ==
    /\ prog = "main"
    /\ pc = "cli"
    /\ go_ahead' = arg_o
    /\ pc' = IF ~arg_o /\ log_exists THEN "prompt" ELSE "check"
    /\ UNCHANGED <<prog, arg_o, log_exists, load_model, load_opt, res,
                   prompted, log, num_batches, epochs, eval_freq, epoch, batch_idx,
                   params, opt_state, grads, loss, model_file, opt_file,
                   ckpt, evals>>

\* res = input(...); go_ahead = res == "" or res.lower() == "y"
CliPrompt ==
    /\ prog = "main"
    /\ pc = "prompt"
    /\ prompted' = TRUE
    /\ res' \in Answers
    /\ go_ahead' = OverwriteAnswer(res')
    /\ pc' = "check"
    /\ UNCHANGED <<prog, arg_o, log_exists, load_model, load_opt,
                   log, num_batches, epochs, eval_freq, epoch, batch_idx,
                   params, opt_state, grads, loss, model_file, opt_file,
                   ckpt, evals>>

\* if not os.path.exists(args.log_file) or go_ahead: main(...)
CliCheck ==
    /\ prog = "main"
    /\ pc = "check"
    /\ pc' = IF MayRun(log_exists, go_ahead) THEN "load_model" ELSE "exit"
    /\ UNCHANGED <<prog, arg_o, log_exists, load_model, load_opt, go_ahead,
                   res, prompted, log, num_batches, epochs, eval_freq, epoch,
                   batch_idx, params, opt_state, grads, loss, model_file,
                   opt_file, ckpt, evals>>

(* ---------------- train.py: main ---------------- *)

\* the model is built; if load_model: model.load_state_dict(torch.load(...))
MainLoadModel ==
    /\ prog = "main"
    /\ pc = "load_model"
    /\ IF load_model = "bad"
          THEN pc' = "error" /\ UNCHANGED params
          ELSE /\ pc' = "load_opt"
               /\ params' = IF load_model = "ok" THEN LoadStateDict(params)
                                                  ELSE params
    /\ UNCHANGED <<prog, arg_o, log_exists, load_model, load_opt, go_ahead,
                   res, prompted, log, num_batches, epochs, eval_freq, epoch,
                   batch_idx, opt_state, grads, loss, model_file,
                   opt_file, ckpt, evals>>

\* the optimizer is built; if load_opt: opt.load_state_dict(torch.load(...))
MainLoadOpt ==
    /\ prog = "main"
    /\ pc = "load_opt"
    /\ IF load_opt = "bad"
          THEN pc' = "error" /\ UNCHANGED opt_state
          ELSE /\ pc' = "open_log"
               /\ opt_state' = IF load_opt = "ok" THEN LoadStateDict(opt_state)
                                                  ELSE opt_state
    /\ UNCHANGED <<prog, arg_o, log_exists, load_model, load_opt, go_ahead,
                   res, prompted, log, num_batches, epochs, eval_freq, epoch,
                   batch_idx, params, grads, loss, model_file,
                   opt_file, ckpt, evals>>

\* log_file = open(log_file_path, "w"); then the epoch loop is entered
MainOpenLog ==
    /\ prog = "main"
    /\ pc = "open_log"
    /\ log' = <<>>
    /\ pc' = IF 0 < epochs THEN "eval" ELSE "final_eval"
    /\ UNCHANGED <<prog, arg_o, log_exists, load_model, load_opt, go_ahead,
                   res, prompted, num_batches, epochs, eval_freq, epoch,
                   batch_idx, params, opt_state, grads, loss, model_file,
                   opt_file, ckpt, evals>>

\* acc, loss = eval_model(...); print; log_file.write("TEST {epoch-1} ...")
MainEval ==
    /\ prog = "main"
    /\ pc = "eval"
    /\ params' = EvalModel(params)
    /\ log' = Append(log, TestLine(epoch - 1))
    /\ evals' = 1
    /\ batch_idx' = 0
    /\ pc' = IF 0 < num_batches THEN "zero_grad" ELSE "save_model"
    /\ UNCHANGED <<prog, arg_o, log_exists, load_model, load_opt, go_ahead,
                   res, prompted, num_batches, epochs, eval_freq, epoch,
                   opt_state, grads, loss, model_file,
                   opt_file, ckpt>>

\* opt.zero_grad()
MainZeroGrad ==
    /\ prog = "main"
    /\ pc = "zero_grad"
    /\ grads' = "zero"
    /\ loss' = "none"
    /\ pc' = "forward"
    /\ UNCHANGED <<prog, arg_o, log_exists, load_model, load_opt, go_ahead,
                   res, prompted, log, num_batches, epochs, eval_freq, epoch,
                   batch_idx, params, opt_state, model_file,
                   opt_file, ckpt, evals>>

\* p = model(s, a); p = p.view(-1, 6); loss = loss_fn(p, labels)
MainForward ==
    /\ prog = "main"
    /\ pc = "forward"
    /\ loss' = "computed"
    /\ pc' = "backward"
    /\ UNCHANGED <<prog, arg_o, log_exists, load_model, load_opt, go_ahead,
                   res, prompted, log, num_batches, epochs, eval_freq, epoch,
                   batch_idx, params, opt_state, grads, model_file,
                   opt_file, ckpt, evals>>

\* loss.backward()
MainBackward ==
    /\ prog = "main"
    /\ pc = "backward"
    /\ grads' = IF grads = "zero" /\ loss = "computed" THEN "ready" ELSE "stale"
    /\ pc' = "step"
    /\ UNCHANGED <<prog, arg_o, log_exists, load_model, load_opt, go_ahead,
                   res, prompted, log, num_batches, epochs, eval_freq, epoch,
                   batch_idx, params, opt_state, loss, model_file,
                   opt_file, ckpt, evals>>

\* opt.step()
MainStep ==
    /\ prog = "main"
    /\ pc = "step"
    /\ params' = OptStep(params)
    /\ opt_state' = OptStep(opt_state)
    /\ grads' = "used"
    /\ pc' = "log_train"
    /\ UNCHANGED <<prog, arg_o, log_exists, load_model, load_opt, go_ahead,
                   res, prompted, log, num_batches, epochs, eval_freq, epoch,
                   batch_idx, loss, model_file, opt_file, ckpt, evals>>

\* loss = loss.item(); ...; log_file.write("TRAIN {epoch} {batch_idx} ...");
\* then the next batch, or the checkpoint when the dataloader is exhausted
MainLogTrain ==
    /\ prog = "main"
    /\ pc = "log_train"
    /\ log' = Append(log, TrainLine(epoch, batch_idx))
    /\ pc' = AfterBatch(batch_idx, num_batches)
    /\ batch_idx' = IF pc' = "zero_grad" THEN batch_idx + 1 ELSE batch_idx
    /\ UNCHANGED <<prog, arg_o, log_exists, load_model, load_opt, go_ahead,
                   res, prompted, num_batches, epochs, eval_freq, epoch,
                   params, opt_state, grads, loss, model_file, opt_file,
                   ckpt, evals>>

\* torch.save(model.state_dict(), f"model_{epoch}.pth"): the file is opened
\* for writing, which creates or truncates it
MainSaveModelOpen ==
    /\ prog = "main"
    /\ pc = "save_model"
    /\ model_file' = [model_file EXCEPT ![epoch] = Partial]
    /\ pc' = "save_model_w"
    /\ UNCHANGED <<prog, arg_o, log_exists, load_model, load_opt, go_ahead,
                   res, prompted, log, num_batches, epochs, eval_freq, epoch,
                   batch_idx, params, opt_state, grads, loss, opt_file,
                   ckpt, evals>>

\* torch.save(model.state_dict(), ...): the state dict is written out
MainSaveModelWrite ==
    /\ prog = "main"
    /\ pc = "save_model_w"
    /\ model_file' = [model_file EXCEPT ![epoch] = Snap(params)]
    /\ pc' = "save_opt"
    /\ UNCHANGED <<prog, arg_o, log_exists, load_model, load_opt, go_ahead,
                   res, prompted, log, num_batches, epochs, eval_freq, epoch,
                   batch_idx, params, opt_state, grads, loss, opt_file,
                   ckpt, evals>>

\* torch.save(opt.state_dict(), f"opt.pth"): the one file opt.pth is opened
\* for writing, which creates or truncates it
MainSaveOptOpen ==
    /\ prog = "main"
    /\ pc = "save_opt"
    /\ opt_file' = Partial
    /\ pc' = "save_opt_w"
    /\ UNCHANGED <<prog, arg_o, log_exists, load_model, load_opt, go_ahead,
                   res, prompted, log, num_batches, epochs, eval_freq, epoch,
                   batch_idx, params, opt_state, grads, loss, model_file,
                   ckpt, evals>>

\* torch.save(opt.state_dict(), ...): the state dict is written out; the
\* epoch is complete and the loop goes on with the next one
MainSaveOptWrite ==
    /\ prog = "main"
    /\ pc = "save_opt_w"
    /\ opt_file' = Snap(opt_state)
    /\ pc' = AfterEpoch(epoch, epochs)
    /\ epoch' = epoch + 1
    /\ UNCHANGED <<prog, arg_o, log_exists, load_model, load_opt, go_ahead,
                   res, prompted, log, num_batches, epochs, eval_freq,
                   batch_idx, params, opt_state, grads, loss, model_file,
                   ckpt, evals>>

\* acc = eval_model(model, test_data); print(... round(acc, 2) ...): acc is
\* what line 45 unpacks into two values, so round may raise
MainFinalEval ==
    /\ prog = "main"
    /\ pc = "final_eval"
    /\ params' = EvalModel(params)
    /\ pc' \in {"done", "error"}
    /\ UNCHANGED <<prog, arg_o, log_exists, load_model, load_opt, go_ahead,
                   res, prompted, log, num_batches, epochs, eval_freq, epoch,
                   batch_idx, opt_state, grads, loss, model_file,
                   opt_file, ckpt, evals>>

MainRunning ==
    pc \in {"load_model", "load_opt", "open_log", "eval", "zero_grad",
            "forward", "backward", "step", "log_train", "save_model",
            "save_model_w", "save_opt", "save_opt_w", "final_eval"}

\* the process is killed (power loss, SIGKILL, out of memory)
MainCrash ==
    /\ prog = "main"
    /\ MainRunning
    /\ pc' = "crashed"
    /\ UNCHANGED <<prog, arg_o, log_exists, load_model, load_opt, go_ahead,
                   res, prompted, log, num_batches, epochs, eval_freq, epoch,
                   batch_idx, params, opt_state, grads, loss, model_file,
                   opt_file, ckpt, evals>>

(* ---------------- train/gpt.py: GPTTrainingContext.__call__ ---------------- *)

GFrame == <<prog, arg_o, log_exists, load_model, load_opt, go_ahead,
            res, prompted, num_batches, epochs, eval_freq, model_file, opt_file>>

\* the statement after a batch (with its periodic evaluation, if any)
GAfterBatch(b, n) == IF b + 1 < n THEN "g_zero_grad" ELSE "g_eval_end"

\* ctx(model, opt) is called: for epoch in range(self.epochs)
GEnter ==
    /\ prog = "gpt"
    /\ pc = "g_start"
    /\ pc' = IF 0 < epochs THEN "g_eval_start" ELSE "done"
    /\ UNCHANGED <<GFrame, log, epoch, batch_idx, params, opt_state, grads,
                   loss, ckpt, evals>>

\* Logger.epoch(); out = self.eval_fn(...); Logger.test_output(*out)
GEvalStart ==
    /\ prog = "gpt"
    /\ pc = "g_eval_start"
    /\ params' = FakeEval(params)
    /\ log' = LoggerTestOutput(log, epoch)
    /\ evals' = 1
    /\ batch_idx' = 0
    /\ pc' = "g_ckpt_start"
    /\ UNCHANGED <<GFrame, epoch, opt_state, grads, loss, ckpt>>

\* Logger.save_checkpoint(model, opt) at the start of the epoch; then the
\* batch loop, or the end of the epoch when train_dl is empty
GCkptStart ==
    /\ prog = "gpt"
    /\ pc = "g_ckpt_start"
    /\ ckpt' = LoggerSaveCheckpoint(ckpt, params, opt_state)
    /\ pc' = IF 0 < num_batches THEN "g_zero_grad" ELSE "g_eval_end"
    /\ UNCHANGED <<GFrame, log, epoch, batch_idx, params, opt_state, grads,
                   loss, evals>>

\* opt.zero_grad()
GZeroGrad ==
    /\ prog = "gpt"
    /\ pc = "g_zero_grad"
    /\ grads' = "zero"
    /\ loss' = "none"
    /\ pc' = "g_loss"
    /\ UNCHANGED <<GFrame, log, epoch, batch_idx, params, opt_state, ckpt,
                   evals>>

\* loss = self.train_fn(model, state)
GLoss ==
    /\ prog = "gpt"
    /\ pc = "g_loss"
    /\ loss' = "computed"
    /\ pc' = "g_backward"
    /\ UNCHANGED <<GFrame, log, epoch, batch_idx, params, opt_state, grads,
                   ckpt, evals>>

\* loss.backward()
GBackward ==
    /\ prog = "gpt"
    /\ pc = "g_backward"
    /\ grads' = IF grads = "zero" /\ loss = "computed" THEN "ready" ELSE "stale"
    /\ pc' = "g_step"
    /\ UNCHANGED <<GFrame, log, epoch, batch_idx, params, opt_state, loss,
                   ckpt, evals>>

\* opt.step()
GStep ==
    /\ prog = "gpt"
    /\ pc = "g_step"
    /\ params' = OptStep(params)
    /\ opt_state' = OptStep(opt_state)
    /\ grads' = "used"
    /\ pc' = "g_log"
    /\ UNCHANGED <<GFrame, log, epoch, batch_idx, loss, ckpt, evals>>

\* Logger.loss(...); if batch_idx % self.eval_freq == 0 and batch_idx > 0
GLog ==
    /\ prog = "gpt"
    /\ pc = "g_log"
    /\ log' = LoggerLoss(log, epoch, batch_idx)
    /\ pc' = IF PeriodicEval(batch_idx, eval_freq)
                THEN "g_eval_mid"
                ELSE GAfterBatch(batch_idx, num_batches)
    /\ batch_idx' = IF pc' = "g_zero_grad" THEN batch_idx + 1 ELSE batch_idx
    /\ UNCHANGED <<GFrame, epoch, params, opt_state, grads, loss, ckpt,
                   evals>>

\* the periodic out = self.eval_fn(...); Logger.test_output(*out)
GEvalMid ==
    /\ prog = "gpt"
    /\ pc = "g_eval_mid"
    /\ params' = FakeEval(params)
    /\ log' = LoggerTestOutput(log, epoch)
    /\ evals' = evals + 1
    /\ pc' = "g_ckpt_mid"
    /\ UNCHANGED <<GFrame, epoch, batch_idx, opt_state, grads, loss, ckpt>>

\* the periodic Logger.save_checkpoint(model, opt); then the next batch
GCkptMid ==
    /\ prog = "gpt"
    /\ pc = "g_ckpt_mid"
    /\ ckpt' = LoggerSaveCheckpoint(ckpt, params, opt_state)
    /\ pc' = GAfterBatch(batch_idx, num_batches)
    /\ batch_idx' = IF pc' = "g_zero_grad" THEN batch_idx + 1 ELSE batch_idx
    /\ UNCHANGED <<GFrame, log, epoch, params, opt_state, grads, loss,
                   evals>>

\* after the batch loop: out = self.eval_fn(...); Logger.test_output(*out)
GEvalEnd ==
    /\ prog = "gpt"
    /\ pc = "g_eval_end"
    /\ params' = FakeEval(params)
    /\ log' = LoggerTestOutput(log, epoch)
    /\ evals' = evals + 1
    /\ pc' = "g_ckpt_end"
    /\ UNCHANGED <<GFrame, epoch, batch_idx, opt_state, grads, loss, ckpt>>

\* after the batch loop: Logger.save_checkpoint(model, opt); the epoch is
\* complete and the loop goes on with the next one, or __call__ returns
GCkptEnd ==
    /\ prog = "gpt"
    /\ pc = "g_ckpt_end"
    /\ ckpt' = LoggerSaveCheckpoint(ckpt, params, opt_state)
    /\ epoch' = epoch + 1
    /\ pc' = IF epoch + 1 < epochs THEN "g_eval_start" ELSE "done"
    /\ UNCHANGED <<GFrame, log, batch_idx, params, opt_state, grads, loss,
                   evals>>

(* ---------------- the phases of the training loop ---------------- *)

\* the phase of the controller the statement at pc belongs to
Phase ==
    CASE pc \in {"eval", "final_eval", "g_eval_start", "g_eval_mid",
                 "g_eval_end"} -> "Evaluating"
      [] pc \in {"zero_grad", "forward", "backward", "step", "log_train",
                 "g_zero_grad", "g_loss", "g_backward", "g_step", "g_log"}
            -> "Training"
      [] pc \in {"save_model", "save_model_w", "save_opt", "save_opt_w",
                 "g_ckpt_start", "g_ckpt_mid", "g_ckpt_end"} -> "Checkpointing"
      [] pc \in {"done", "error", "crashed", "exit"} -> "Terminal"
      [] OTHER -> "Idle"

(* ---------------- specifications ---------------- *)

DecodeIdle ==
    /\ op = "none"
    /\ state = <<>>
    /\ action = <<>>
    /\ max_len = 0
    /\ dpc = "idle"
    /\ tokens = <<>>
    /\ i = 0
    /\ srcIn = <<>>
    /\ tgtIn = <<>>
    /\ nextIn = <<>>
    /\ mask = <<>>
    /\ tgt_mask = <<>>
    /\ result = <<>>

TrainIdle ==
    /\ prog = "none"
    /\ pc = "idle"
    /\ arg_o = FALSE
    /\ log_exists = FALSE
    /\ load_model = "none"
    /\ load_opt = "none"
    /\ go_ahead = FALSE
    /\ res = ""
    /\ prompted = FALSE
    /\ log = <<>>
    /\ num_batches = 0
    /\ epochs = 0
    /\ eval_freq = 1
    /\ epoch = 0
    /\ batch_idx = 0
    /\ params = Fresh
    /\ opt_state = Fresh
    /\ grads = "none"
    /\ loss = "none"
    /\ model_file = [e \in 0..(MainEpochs - 1) |-> Absent]
    /\ opt_file = Absent
    /\ ckpt = [model |-> Absent, opt |-> Absent, calls |-> 0]
    /\ evals = 0

DecodeInit == DecodeCall /\ TrainIdle

DecodeNext ==
    \/ Forward /\ UNCHANGED tvars
    \/ InferenceStart /\ UNCHANGED tvars
    \/ InferenceStep /\ UNCHANGED tvars
    \/ SampleStep /\ UNCHANGED tvars
    \/ InferenceReturn /\ UNCHANGED tvars

SpecDecode == DecodeInit /\ [][DecodeNext]_vars

Init == TrainStart /\ DecodeIdle

Next ==
    \/ CliFlag /\ UNCHANGED dvars
    \/ CliPrompt /\ UNCHANGED dvars
    \/ CliCheck /\ UNCHANGED dvars
    \/ MainLoadModel /\ UNCHANGED dvars
    \/ MainLoadOpt /\ UNCHANGED dvars
    \/ MainOpenLog /\ UNCHANGED dvars
    \/ MainEval /\ UNCHANGED dvars
    \/ MainZeroGrad /\ UNCHANGED dvars
    \/ MainForward /\ UNCHANGED dvars
    \/ MainBackward /\ UNCHANGED dvars
    \/ MainStep /\ UNCHANGED dvars
    \/ MainLogTrain /\ UNCHANGED dvars
    \/ MainSaveModelOpen /\ UNCHANGED dvars
    \/ MainSaveModelWrite /\ UNCHANGED dvars
    \/ MainSaveOptOpen /\ UNCHANGED dvars
    \/ MainSaveOptWrite /\ UNCHANGED dvars
    \/ MainFinalEval /\ UNCHANGED dvars
    \/ MainCrash /\ UNCHANGED dvars
    \/ GEnter /\ UNCHANGED dvars
    \/ GEvalStart /\ UNCHANGED dvars
    \/ GCkptStart /\ UNCHANGED dvars
    \/ GZeroGrad /\ UNCHANGED dvars
    \/ GLoss /\ UNCHANGED dvars
    \/ GBackward /\ UNCHANGED dvars
    \/ GStep /\ UNCHANGED dvars
    \/ GLog /\ UNCHANGED dvars
    \/ GEvalMid /\ UNCHANGED dvars
    \/ GCkptMid /\ UNCHANGED dvars
    \/ GEvalEnd /\ UNCHANGED dvars
    \/ GCkptEnd /\ UNCHANGED dvars

Spec == Init /\ [][Next]_vars

\* the interpreter runs the program on; the user answers the prompt
FairSpec == Spec /\ WF_vars(Next)

(* ---------------- properties of the decoder ---------------- *)

Decoding == op \in {"inference", "sample"}

\* C1: the decoder runs exactly max_len steps with no early stop, the token
\* sequence of every batch row grows by exactly one token per step (its
\* length is the number of finished steps plus one), the returned sequence
\* has length max_len + 1 and its first element is the start token.
C1_DecodeLength ==
    /\ (Decoding /\ dpc \in {"loop", "done"}) =>
          /\ i <= max_len
          /\ DOMAIN tokens = DOMAIN state
          /\ \A b \in DOMAIN tokens :
                /\ Len(tokens[b]) = i + 1
                /\ tokens[b][1] = StartId
    /\ (Decoding /\ dpc = "done") =>
          /\ i = max_len
          /\ DOMAIN result = DOMAIN state
          /\ \A b \in DOMAIN result :
                /\ Len(result[b]) = max_len + 1
                /\ result[b][1] = StartId

\* a max_len = 2 decode has returned three tokens, the last one not the
\* start token
C1_Witness ==
    /\ Decoding
    /\ dpc = "done"
    /\ max_len = 2
    /\ i = 2
    /\ Len(result[1]) = 3
    /\ result[1][3] # StartId

Neutralised(shown, raw) ==
    /\ DOMAIN shown = DOMAIN raw
    /\ \A b \in DOMAIN raw :
          /\ DOMAIN shown[b] = DOMAIN raw[b]
          /\ \A j \in DOMAIN raw[b] :
                shown[b][j] = IF raw[b][j] = PaddingValue THEN 0 ELSE raw[b][j]

\* the mask `m` has the shape of `raw` and is true exactly at the sentinels
MaskOf(m, raw) ==
    /\ DOMAIN m = DOMAIN raw
    /\ \A b \in DOMAIN raw :
          /\ DOMAIN m[b] = DOMAIN raw[b]
          /\ \A j \in DOMAIN raw[b] : m[b][j] <=> (raw[b][j] = PaddingValue)

NoSentinel(batch) ==
    \A b \in DOMAIN batch : \A j \in DOMAIN batch[b] : batch[b][j] # PaddingValue

\* C8: the mask has the shape of its input and is true exactly at the
\* sentinel positions; forward (and the decoder, for the state) hands to the
\* embedding lookup a batch that is 0 at those positions and the input
\* elsewhere; no embedding lookup of forward or of the decode loop ever
\* receives the sentinel.
C8_MaskAndEmbedding ==
    /\ dpc # "start" =>
          /\ MaskOf(mask, state)
          /\ Neutralised(srcIn, state)
          /\ NoSentinel(srcIn)
    /\ (op = "forward" /\ dpc = "done") =>
          /\ MaskOf(tgt_mask, action)
          /\ Neutralised(tgtIn, action)
          /\ NoSentinel(tgtIn)
    /\ Decoding =>
          /\ NoSentinel(tgtIn)
          /\ \A b \in DOMAIN nextIn : nextIn[b] # PaddingValue

\* forward has embedded a state and an action that both hold a sentinel
C8_Witness ==
    /\ op = "forward"
    /\ dpc = "done"
    /\ state[1][1] = PaddingValue
    /\ action[1] = <<1, PaddingValue>>
    /\ srcIn[1][1] = 0
    /\ tgtIn[1] = <<1, 0>>
    /\ tgt_mask[1] = <<FALSE, TRUE>>


(* ---------------- properties of the training programs ---------------- *)

IsSnap(f) == f.kind = "snap"

\* the model snapshots on disk, by epoch
ModelArtifacts == {e \in DOMAIN model_file : IsSnap(model_file[e])}

\* the number of optimizer snapshots on disk: opt.pth is the only such file
OptArtifacts == IF IsSnap(opt_file) THEN 1 ELSE 0

\* the number of (model snapshot, optimizer snapshot) pairs on disk
CheckpointPairs ==
    IF Cardinality(ModelArtifacts) < OptArtifacts
       THEN Cardinality(ModelArtifacts) ELSE OptArtifacts

TestLines == Cardinality({k \in DOMAIN log : log[k].kind = "TEST"})

\* main stands between two epochs (or behind the last one)
EpochBoundary == prog = "main" /\ pc \in {"eval", "final_eval"}

\* C2: after E completed epochs exactly E pairs of checkpoint artifacts
\* (model snapshot + optimizer snapshot) exist, and the log holds at least
\* one TEST line per epoch boundary.
C2_PairsPerEpoch ==
    EpochBoundary =>
        /\ CheckpointPairs = epoch
        /\ TestLines >= epoch

\* C3: when the run crashes anywhere between a gradient step and the end of
\* the checkpoint write, the model/optimizer pair of the previously completed
\* checkpoint is still intact on disk and mutually consistent.
C3_PreviousPairIntact ==
    (prog = "main" /\ pc = "crashed" /\ epoch >= 1) =>
        /\ IsSnap(model_file[epoch - 1])
        /\ IsSnap(opt_file)
        /\ opt_file.steps = model_file[epoch - 1].steps

\* the batch indices of an epoch that are positive multiples of eval_freq
PeriodicSites == {b \in 1..(num_batches - 1) : b % eval_freq = 0}

\* C4 as stated: an epoch of GPTTrainingContext holds one evaluation at its
\* start and one every eval_freq batches, and no other.
C4_EvalStartAndPeriodic ==
    (prog = "gpt" /\ pc = "g_ckpt_end") =>
        evals = 1 + Cardinality(PeriodicSites)

\* C4 as amended: an epoch of GPTTrainingContext holds one evaluation at its
\* start, one after every batch whose index is a positive multiple of
\* eval_freq, and one more after its last batch; an epoch of main holds
\* exactly one evaluation, at its start.
C4_EvalSites ==
    /\ (prog = "gpt" /\ pc = "g_ckpt_start") => evals = 1
    /\ (prog = "gpt" /\ pc = "g_eval_mid") =>
          /\ batch_idx > 0
          /\ batch_idx % eval_freq = 0
    /\ (prog = "gpt" /\ pc \in {"g_zero_grad", "g_eval_end"}) =>
          evals = 1 + Cardinality({b \in PeriodicSites :
                      b < batch_idx \/ pc = "g_eval_end"})
    /\ (prog = "gpt" /\ pc = "g_ckpt_end") =>
          evals = 2 + Cardinality(PeriodicSites)
    /\ (prog = "main" /\ Phase \in {"Training", "Checkpointing"}) => evals = 1

\* an epoch of three batches with eval_freq 1 is complete: four evaluations
C4_Witness ==
    /\ prog = "gpt"
    /\ pc = "g_ckpt_end"
    /\ num_batches = 3
    /\ eval_freq = 1
    /\ evals = 4

\* the phase changes the state machine of the specification allows
PhaseStepClaimed ==
    \/ Phase' = Phase
    \/ Phase' = "Terminal"
    \/ Phase = "Idle" /\ Phase' = "Evaluating"
    \/ Phase = "Evaluating" /\ Phase' = "Training"
    \/ Phase = "Evaluating" /\ Phase' = "Checkpointing" /\ num_batches = 0
    \/ Phase = "Training" /\ Phase' = "Checkpointing"
    \/ Phase = "Checkpointing" /\ Phase' = "Evaluating"

\* the phase changes of GPTTrainingContext: every evaluation is followed by
\* a checkpoint, and training is entered from a checkpoint
PhaseStepGpt ==
    \/ Phase' = Phase
    \/ Phase = "Idle" /\ Phase' = "Evaluating"
    \/ Phase = "Idle" /\ Phase' = "Terminal" /\ epochs = 0
    \/ Phase = "Evaluating" /\ Phase' = "Checkpointing"
    \/ Phase = "Checkpointing" /\ Phase' = "Training"
    \/ Phase = "Training" /\ Phase' = "Evaluating"
    \/ Phase = "Checkpointing" /\ Phase' = "Evaluating"
    \/ Phase = "Checkpointing" /\ Phase' = "Terminal"

\* a run that came to its regular end
Finished == pc = "done" \/ (prog = "main" /\ pc = "error" /\ epoch = epochs)

\* the files written by the last checkpoint of main hold the state the run
\* ends with (GPTTrainingContext ends from its Checkpointing phase, see
\* PhaseStepGpt)
LastCheckpointCurrent ==
    prog = "main" =>
        /\ model_file[epochs - 1] = Snap(params)
        /\ opt_file = Snap(opt_state)

TerminalFacts ==
    Finished =>
        /\ epoch = epochs
        /\ params.steps = epochs * num_batches
        /\ epochs > 0 => LastCheckpointCurrent

\* C5 as stated: the loop goes Idle -> Evaluating -> Training (once per
\* batch) -> Checkpointing -> back to Evaluating, once per epoch, ends after
\* exactly `epochs` epochs and trains no more after the last checkpoint.
C5_PhaseCycle ==
    /\ [][PhaseStepClaimed]_vars
    /\ []TerminalFacts

\* C5 as amended: main follows the cycle as stated; GPTTrainingContext goes
\* Idle -> Evaluating -> Checkpointing -> Training (once per batch, with
\* Evaluating -> Checkpointing after the periodic batches) -> Evaluating ->
\* Checkpointing -> back to Evaluating; both run every batch of exactly
\* `epochs` epochs, train no more after the last checkpoint, and reach a
\* terminal state.
C5_PhaseCycleAmended ==
    /\ [][IF prog = "gpt" THEN PhaseStepGpt ELSE PhaseStepClaimed]_vars
    /\ []TerminalFacts
    /\ <>(Phase = "Terminal")

\* both programs have come to their regular end after all their epochs
C5_Witness ==
    /\ prog = "gpt"
    /\ pc = "done"
    /\ epochs = 2
    /\ num_batches = 3
    /\ params.steps = 6

\* the log file as it was when the program started
LogUntouched == log = IF log_exists THEN <<OldLine>> ELSE <<>>

\* C6: supplied model / optimizer artifacts are loaded before the first
\* evaluation and before any gradient step and replace the freshly built
\* state; a load failure stops the run before any evaluation or training.
C6_LoadBeforeLoop ==
    prog = "main" =>
        /\ (pc = "open_log" \/ Phase \in {"Evaluating", "Training", "Checkpointing"}) =>
              /\ load_model # "bad" /\ load_opt # "bad"
              /\ params.origin = IF load_model = "ok" THEN "loaded" ELSE "fresh"
              /\ opt_state.origin = IF load_opt = "ok" THEN "loaded" ELSE "fresh"
        /\ (pc = "eval" /\ epoch = 0) =>
              /\ evals = 0
              /\ params.steps = 0
              /\ opt_state.steps = 0
        /\ (load_model = "bad" \/ load_opt = "bad") =>
              /\ Phase \in {"Idle", "Terminal"}
              /\ evals = 0
              /\ params.steps = 0
              /\ LogUntouched
        /\ (pc = "error" /\ epoch < epochs) =>
              (load_model = "bad" \/ load_opt = "bad")

\* the first evaluation is about to run on loaded parameters and optimizer
C6_Witness ==
    /\ prog = "main"
    /\ pc = "eval"
    /\ epoch = 0
    /\ load_model = "ok"
    /\ load_opt = "ok"
    /\ params.origin = "loaded"
    /\ opt_state.origin = "loaded"

\* main() has been called
MainCalled == prog = "main" /\ pc \notin {"cli", "prompt", "check", "exit"}

\* C9: with an existing log file and no forced overwrite the program prompts
\* before going on and takes the empty answer as yes; after a refusal it
\* exits normally, without calling main and without touching the log file;
\* with no log file, or with forced overwrite, main is called unprompted.
C9_OverwritePrompt ==
    prog = "main" =>
        /\ prompted <=> (pc \notin {"cli", "prompt"} /\ log_exists /\ ~arg_o)
        /\ prompted =>
              /\ res = "" => go_ahead
              /\ go_ahead <=> res \in {"", "y", "Y"}
        /\ (MainCalled /\ prompted) => go_ahead
        /\ pc = "exit" =>
              /\ prompted /\ ~go_ahead
              /\ LogUntouched
              /\ params = Fresh /\ opt_state = Fresh
              /\ evals = 0
        /\ (pc \notin {"cli", "prompt", "check"} /\ (go_ahead \/ ~log_exists)) =>
              MainCalled

\* the user refused the overwrite and the program has exited
C9_Witness ==
    /\ prog = "main"
    /\ pc = "exit"
    /\ res = "n"
    /\ log = <<OldLine>>

\* in the loop, a change of the parameters or of the optimizer state is one
\* optimizer step on gradients computed since the last reset
StepOnly ==
    (Phase # "Idle" /\ (params' # params \/ opt_state' # opt_state)) =>
        /\ pc \in {"step", "g_step"}
        /\ grads = "ready"
        /\ params'.steps = params.steps + 1
        /\ opt_state'.steps = opt_state.steps + 1
        /\ params'.origin = params.origin
        /\ opt_state'.origin = opt_state.origin

\* the position inside a batch fixes what has been done for it so far
BatchOrder ==
    /\ pc \in {"zero_grad", "g_zero_grad", "forward", "g_loss", "backward",
               "g_backward", "step", "g_step"} =>
          /\ params.steps = epoch * num_batches + batch_idx
          /\ opt_state.steps = params.steps
    /\ pc \in {"log_train", "g_log", "g_eval_mid", "g_ckpt_mid"} =>
          /\ params.steps = epoch * num_batches + batch_idx + 1
          /\ opt_state.steps = params.steps
    /\ pc \in {"forward", "g_loss"} => grads = "zero" /\ loss = "none"
    /\ pc \in {"backward", "g_backward"} => grads = "zero" /\ loss = "computed"
    /\ pc \in {"step", "g_step"} => grads = "ready"

\* C10: once the loop runs, parameters and optimizer state change only in a
\* training step; every batch does gradient reset, loss, back-propagation and
\* exactly one optimizer step, in that order; evaluation, logging and
\* checkpointing leave parameters and optimizer state as they are.
C10_StepOnlyInTraining ==
    /\ [][StepOnly]_vars
    /\ []BatchOrder

\* a periodic evaluation runs after two optimizer steps
C10_Witness ==
    /\ prog = "gpt"
    /\ pc = "g_eval_mid"
    /\ params.steps = 2
    /\ opt_state.steps = 2
====
